---- MODULE Spec2Model ----
(***************************************************************************)
(* Booking store, booking status operations and the availability checker   *)
(* of the lensora API:                                                      *)
(*   controllers/bookingController.js  (createBooking, updateBookingStatus, *)
(*                                      cancelBooking, getAvailableSlots)   *)
(*   controllers/adminController.js    (updateBookingStatus)                *)
(*   controllers/photographerController.js (updateTeamMember,               *)
(*                                      getTeamAvailability)                *)
(*   utils/availabilityChecker.js      (calculateAvailability,              *)
(*                                      findAvailableSlots)                 *)
(* Every await of a handler that touches the store is one step.             *)
(***************************************************************************)
EXTENDS Integers, FiniteSets, Sequences, TLC

(***************************************************************************)
(* Bounds of the model.                                                     *)
(***************************************************************************)
\* number of handler invocations explored in one behaviour of Spec
MaxOps == 3
\* calendar days are numbered 0..MaxDate, day 0 is a Monday
MaxDate == 1

(***************************************************************************)
(* Identifiers of the documents in the store.                               *)
(***************************************************************************)
Providers == {"p1", "p2"}

TeamMembers == {"m1", "m2"}

Equipment == {"e1"}

\* bookings in the collection when the server starts
BookingIds == {"b1", "b2"}

\* _id given to a document inserted by createBooking
NewBookingId == "b3"

\* concurrently served updateBookingStatus requests
Reqs == {"r1", "r2"}

Dates == 0..MaxDate

\* models/Booking.js, status enum
Statuses == {"pending", "confirmed", "in_progress", "completed", "cancelled", "disputed"}

\* status filter of the availability queries
CommittedStatuses == {"confirmed", "in_progress"}

(***************************************************************************)
(* Times of day.  The store keeps them as 'HH:MM' strings; a string is the  *)
(* pair of its hour and minute fields.                                      *)
(***************************************************************************)
HHMM(h, m) == [h |-> h, m |-> m]

MinutesPerDay == 24 * 60

\* moment(`${date} ${time}`): the instant, in minutes since day 0, 00:00
ParseMoment(date, time) == date * MinutesPerDay + time.h * 60 + time.m

\* moment.format('HH:mm'): the time of day of an instant, the date is dropped
FormatHHmm(t) == HHMM((t % MinutesPerDay) \div 60, t % 60)

\* minutes since midnight of an 'HH:MM' string
TimeOfDay(time) == time.h * 60 + time.m

\* moment.format('dddd').toLowerCase()
DayNames == <<"monday", "tuesday", "wednesday", "thursday", "friday", "saturday", "sunday">>

Weekdays == {DayNames[i] : i \in 1..7}

dayOfWeek(date) == DayNames[(date % 7) + 1]

VARIABLES
  bookings,     \* the Booking collection: _id -> document
  providers,    \* the Photographer/Videographer collections: _id -> document
  upd,          \* updateBookingStatus requests of providers, per request slot
  can,          \* the cancelBooking request
  lastRes,      \* response of the last createBooking / admin request
  ops,          \* number of handler invocations so far
  avail,        \* the last availability call and its result, when it was a
                \* calculateAvailability call
  slots,        \* the last availability call and its result, when it was a
                \* getAvailableSlots request
  ov,           \* last evaluation of the slot conflict test
  members,         \* the TeamMember collection: _id -> document
  tav,          \* the last getTeamAvailability request and its response
  loop          \* a findAvailableSlots call in progress: its position and locals

vars == <<bookings, providers, upd, can, lastRes, ops, avail, slots, ov, members, tav, loop>>

storeVars == <<bookings, providers>>

(***************************************************************************)
(* Documents.                                                               *)
(***************************************************************************)
\* a weekday entry of availability.workingHours (models/Photographer.js)
NoEntry == [present |-> FALSE, available |-> FALSE, start |-> HHMM(0, 0), end |-> HHMM(0, 0)]

WorkEntry(avl, s, e) == [present |-> TRUE, available |-> avl, start |-> s, end |-> e]

\* a Booking document as createBooking builds it (status default 'pending',
\* empty teamAssignment)
NewBooking(p, d, s, e) ==
  [provider |-> p, date |-> d, startTime |-> s, endTime |-> e,
   status |-> "pending", teamMembers |-> {}, equipment |-> {}]

(***************************************************************************)
(* The store when the server starts: the collections persist in the         *)
(* database, the bookings in them are pending with an empty teamAssignment. *)
(***************************************************************************)
\* working-hours entries of the stored profiles: 19:00-23:00 and 21:00-23:00
\* open, 21:00-23:00 closed
EveningLong == WorkEntry(TRUE, HHMM(19, 0), HHMM(23, 0))

EveningShort == WorkEntry(TRUE, HHMM(21, 0), HHMM(23, 0))

EveningClosed == WorkEntry(FALSE, HHMM(21, 0), HHMM(23, 0))

\* 09:00-18:00 open
DayShift == WorkEntry(TRUE, HHMM(9, 0), HHMM(18, 0))

\* a Photographer/Videographer document
ProviderDoc(wh, blackout, roster, equip) ==
  [workingHours |-> wh, blackoutDates |-> blackout, teamMembers |-> roster, equipment |-> equip]

\* the rosters: p1 owns both team members and the equipment unit
RosterOf(p) == IF p = "p1" THEN TeamMembers ELSE {}

EquipmentOf(p) == IF p = "p1" THEN Equipment ELSE {}

DefaultProviders ==
  [p \in Providers |->
     ProviderDoc([w \in Weekdays |-> EveningLong], {}, RosterOf(p), EquipmentOf(p))]

\* a TeamMember document (models/TeamMember.js); isActive defaults to true
TeamMemberDoc(owner, isActive) == [owner |-> owner, isActive |-> isActive]

DefaultTeam == [m \in TeamMembers |-> TeamMemberDoc("p1", TRUE)]

NoTeamCall ==
  [made |-> FALSE, id |-> "p1", d |-> 0, code |-> "none", total |-> 0, available |-> 0,
   booked |-> 0, canAcceptBooking |-> FALSE, availableMembers |-> {}]

\* event windows of the stored bookings
EventWindows ==
  { <<HHMM(21, 0), HHMM(22, 0)>>, <<HHMM(21, 30), HHMM(22, 30)>>, <<HHMM(22, 0), HHMM(23, 0)>> }

\* event windows of a createBooking request: those above, an inverted one and
\* an empty one (the route installs no validation of the body)
RequestWindows ==
  EventWindows \cup { <<HHMM(22, 0), HHMM(21, 0)>>, <<HHMM(21, 0), HHMM(21, 0)>> }

\* b2 next to b1: same provider and day with an overlapping or a touching
\* window, the same window on another day, an overlapping window of another
\* provider
SecondBookings ==
  { NewBooking("p1", 0, HHMM(21, 30), HHMM(22, 30)),
    NewBooking("p1", 0, HHMM(22, 0), HHMM(23, 0)),
    NewBooking("p1", MaxDate, HHMM(21, 0), HHMM(22, 0)),
    NewBooking("p2", 0, HHMM(21, 30), HHMM(22, 30)) }

\* b1 is a booking of p1 on day 0, 21:00-22:00
InitBookings ==
  { [b \in BookingIds |->
       IF b = "b1" THEN NewBooking("p1", 0, HHMM(21, 0), HHMM(22, 0)) ELSE second] :
    second \in SecondBookings }

(***************************************************************************)
(* updateBookingStatus of a provider (bookingController.js).                *)
(* Request body: status and an optional teamAssignment, whose teamMembers   *)
(* and equipment fields are each optional.                                  *)
(***************************************************************************)
NoAssignment == [present |-> FALSE, hasTM |-> FALSE, tm |-> {}, hasEQ |-> FALSE, eq |-> {}]

Assignment(hasTM, tm, hasEQ, eq) ==
  [present |-> TRUE, hasTM |-> hasTM, tm |-> tm, hasEQ |-> hasEQ, eq |-> eq]

\* request bodies explored
TeamAssignmentInputs ==
  { NoAssignment,
    Assignment(TRUE, {"m1"}, FALSE, {}),
    Assignment(FALSE, {}, TRUE, {"e1"}) }

\* statuses a provider sends
StatusInputs == {"pending", "confirmed", "in_progress"}

\* snapStatus, snapTM, snapEQ: the booking as the request read it.
\* named: the units an error response names (the handler's error responses
\* carry a message only)
IdleReq ==
  [pc |-> "idle", caller |-> "p1", id |-> "b1", status |-> "pending", ta |-> NoAssignment,
   snapStatus |-> "pending", snapTM |-> {}, snapEQ |-> {}, res |-> "none", named |-> {},
   raced |-> FALSE]

\* { ...booking.teamAssignment, ...teamAssignment }: the fields of the request
\* replace those of the booking as it was READ
MergedTM(r) == IF r.ta.hasTM THEN r.ta.tm ELSE r.snapTM

MergedEQ(r) == IF r.ta.hasEQ THEN r.ta.eq ELSE r.snapEQ

\* Booking.findOne({ _id: id, provider: providerProfile._id })
FindOwnBooking(id, caller) ==
  id \in DOMAIN bookings /\ bookings[id].provider = caller

\* lines 156-176: the profile and the booking are read; 404 when the booking
\* is not one of the caller's.  The request slots are interchangeable: r2 is
\* taken only once r1 has been.
UpdRead(r, caller, id, status, ta) ==
  /\ ops < MaxOps
  /\ upd[r].pc # "read"
  /\ r = "r2" => upd["r1"].pc # "idle"
  /\ ops' = ops + 1
  /\ IF FindOwnBooking(id, caller)
       THEN upd' = [upd EXCEPT ![r] =
                      [pc |-> "read", caller |-> caller, id |-> id, status |-> status, ta |-> ta,
                       snapStatus |-> bookings[id].status,
                       snapTM |-> bookings[id].teamMembers, snapEQ |-> bookings[id].equipment,
                       res |-> "none", named |-> {}, raced |-> FALSE]]
       ELSE upd' = [upd EXCEPT ![r] =
                      [pc |-> "done", caller |-> caller, id |-> id, status |-> status, ta |-> ta,
                       snapStatus |-> "pending", snapTM |-> {}, snapEQ |-> {},
                       res |-> "404", named |-> {}, raced |-> FALSE]]
  /\ UNCHANGED <<bookings, providers, can, lastRes, avail, slots, ov, members, tav, loop>>

\* the update document of lines 178-200 applied by findByIdAndUpdate
UpdatedBooking(b, r) ==
  IF r.ta.present
    THEN [b EXCEPT !.status = r.status, !.teamMembers = MergedTM(r), !.equipment = MergedEQ(r)]
    ELSE [b EXCEPT !.status = r.status]

\* lines 202-216: one findByIdAndUpdate writes status and teamAssignment,
\* then 200.  raced records that another request had read and not yet
\* written when this write happened.
UpdWrite(r) ==
  /\ upd[r].pc = "read"
  /\ bookings' = [bookings EXCEPT ![upd[r].id] = UpdatedBooking(bookings[upd[r].id], upd[r])]
  /\ upd' = [upd EXCEPT ![r].pc = "done", ![r].res = "200",
                        ![r].raced = (\E o \in Reqs \ {r} : upd[o].pc = "read")]
  /\ UNCHANGED <<providers, can, lastRes, ops, avail, slots, ov, members, tav, loop>>

(***************************************************************************)
(* updateBookingStatus of an admin (adminController.js): one                *)
(* findByIdAndUpdate that sets the status.                                  *)
(***************************************************************************)
AdminUpdateBookingStatus(id, status) ==
  /\ ops < MaxOps
  /\ ops' = ops + 1
  /\ IF id \in DOMAIN bookings
       THEN /\ bookings' = [bookings EXCEPT ![id].status = status]
            /\ lastRes' = [op |-> "adminUpdate", code |-> "200", reason |-> "none"]
       ELSE /\ bookings' = bookings
            /\ lastRes' = [op |-> "adminUpdate", code |-> "404", reason |-> "none"]
  /\ UNCHANGED <<providers, upd, can, avail, slots, ov, members, tav, loop>>

(***************************************************************************)
(* cancelBooking (bookingController.js).                                    *)
(***************************************************************************)
IdleCancel == [pc |-> "idle", id |-> "b1", res |-> "none"]

\* lines 228-251: findById, the authorization and status checks.
\* booking.provider is an unpopulated id, so isProvider is never true: only
\* the client of the booking passes the authorization.
CancelRead(id, isClient) ==
  /\ ops < MaxOps
  /\ can.pc # "read"
  /\ ops' = ops + 1
  /\ can' = IF id \notin DOMAIN bookings THEN [pc |-> "done", id |-> id, res |-> "404"]
            ELSE IF ~isClient THEN [pc |-> "done", id |-> id, res |-> "403"]
            ELSE IF bookings[id].status \in {"completed", "cancelled"}
              THEN [pc |-> "done", id |-> id, res |-> "400"]
            ELSE [pc |-> "read", id |-> id, res |-> "none"]
  /\ UNCHANGED <<bookings, providers, upd, lastRes, avail, slots, ov, members, tav, loop>>

\* line 253: booking.save() writes the modified paths, status and cancellation
CancelSave ==
  /\ can.pc = "read"
  /\ bookings' = [bookings EXCEPT ![can.id].status = "cancelled"]
  /\ can' = [can EXCEPT !.pc = "done", !.res = "200"]
  /\ UNCHANGED <<providers, upd, lastRes, ops, avail, slots, ov, members, tav, loop>>

(***************************************************************************)
(* utils/availabilityChecker.js                                             *)
(***************************************************************************)
\* the provider argument: a profile document, or what Model.find() resolves
\* to in createBooking, an array (it has no _id and no availability)
DocArg(p) == [isDoc |-> TRUE, id |-> p]

ArrayArg == [isDoc |-> FALSE, id |-> "none"]

NoCapacity == [present |-> FALSE, total |-> 0, available |-> 0, booked |-> 0]

ReasonDay == "Not available on this day"

ReasonBlackout == "Blackout date"

ReasonCapacity == "No team members available"

ReasonError == "Error calculating availability"

ReasonNull == "null"

\* the query without its status filter
ExistingBookingsAnyStatus(provider, date) ==
  IF provider.isDoc
    THEN { b \in DOMAIN bookings :
             /\ bookings[b].provider = provider.id
             /\ bookings[b].date = date }
    ELSE {}

\* lines 10-18: Booking.find by provider, day and status
ExistingBookings(provider, date) ==
  IF provider.isDoc
    THEN { b \in DOMAIN bookings :
             /\ bookings[b].provider = provider.id
             /\ bookings[b].date = date
             /\ bookings[b].status \in CommittedStatuses }
    ELSE {}

\* line 59: teamAssignment.teamMembers?.length || 1
UnitsOf(b) ==
  IF Cardinality(bookings[b].teamMembers) = 0 THEN 1 ELSE Cardinality(bookings[b].teamMembers)

\* lines 58-60: the reduce over the existing bookings
RECURSIVE SumUnits(_)
SumUnits(bs) ==
  IF bs = {} THEN 0
  ELSE LET b == CHOOSE x \in bs : TRUE IN UnitsOf(b) + SumUnits(bs \ {b})

Max(a, b) == IF a >= b THEN a ELSE b

\* the verdict with >= in place of >
CapacityVerdictInclusive(availableTeamMembers) == availableTeamMembers >= 0

\* lines 62-66: the verdict from the number of free team members
CapacityVerdict(availableTeamMembers) == availableTeamMembers > 0

\* lines 50-54
BookedSlots(existing) ==
  { [start |-> bookings[b].startTime, end |-> bookings[b].endTime, bookingId |-> b] :
    b \in existing }

\* the blackout test with the requested day shifted by one
IsBlackoutDateShifted(provider, date) ==
  (date + 1) \in providers[provider.id].blackoutDates

\* lines 36-38: some blackout date is the same calendar day
IsBlackoutDate(provider, date) ==
  date \in providers[provider.id].blackoutDates

\* the check without the test of the available flag in line 26
calculateAvailabilityAnyFlag(provider, requestedDate, dbOk) ==
  LET existing == ExistingBookings(provider, requestedDate)
      workingHours ==
        IF provider.isDoc
          THEN providers[provider.id].workingHours[dayOfWeek(requestedDate)]
          ELSE NoEntry
      total == Cardinality(providers[provider.id].teamMembers)
      booked == SumUnits(existing)
      free == Max(0, total - booked)
  IN
  IF ~dbOk
    THEN [available |-> FALSE, reason |-> ReasonError, workingHours |-> NoEntry,
          bookedSlots |-> {}, capacity |-> NoCapacity]
  ELSE IF ~workingHours.present
    THEN [available |-> FALSE, reason |-> ReasonDay, workingHours |-> NoEntry,
          bookedSlots |-> {}, capacity |-> NoCapacity]
  ELSE IF IsBlackoutDate(provider, requestedDate)
    THEN [available |-> FALSE, reason |-> ReasonBlackout, workingHours |-> workingHours,
          bookedSlots |-> {}, capacity |-> NoCapacity]
  ELSE [available |-> CapacityVerdict(free),
        reason |-> IF CapacityVerdict(free) THEN ReasonNull ELSE ReasonCapacity,
        workingHours |-> workingHours,
        bookedSlots |-> BookedSlots(existing),
        capacity |-> [present |-> TRUE, total |-> total, available |-> free, booked |-> booked]]

\* lines 5-84.  dbOk: whether the Booking.find of line 11 resolves; when it
\* rejects the catch block of lines 75-83 builds the result.  The duration
\* parameter of line 5 is never read.  For the array of createBooking
\* provider?.availability is undefined, so workingHours is undefined.
calculateAvailability(provider, requestedDate, dbOk) ==
  LET existing == ExistingBookings(provider, requestedDate)
      workingHours ==
        IF provider.isDoc
          THEN providers[provider.id].workingHours[dayOfWeek(requestedDate)]
          ELSE NoEntry
      total == Cardinality(providers[provider.id].teamMembers)
      booked == SumUnits(existing)
      free == Max(0, total - booked)
  IN
  IF ~dbOk
    THEN [available |-> FALSE, reason |-> ReasonError, workingHours |-> NoEntry,
          bookedSlots |-> {}, capacity |-> NoCapacity]
  ELSE IF ~workingHours.present \/ ~workingHours.available
    THEN [available |-> FALSE, reason |-> ReasonDay, workingHours |-> NoEntry,
          bookedSlots |-> {}, capacity |-> NoCapacity]
  ELSE IF IsBlackoutDate(provider, requestedDate)
    THEN [available |-> FALSE, reason |-> ReasonBlackout, workingHours |-> workingHours,
          bookedSlots |-> {}, capacity |-> NoCapacity]
  ELSE [available |-> CapacityVerdict(free),
        reason |-> IF CapacityVerdict(free) THEN ReasonNull ELSE ReasonCapacity,
        workingHours |-> workingHours,
        bookedSlots |-> BookedSlots(existing),
        capacity |-> [present |-> TRUE, total |-> total, available |-> free, booked |-> booked]]

\* the duration argument: a number, or something parseInt turns into NaN
\* (a non-numeric string, undefined)
Num(n) == [num |-> TRUE, v |-> n]

NotANumber == [num |-> FALSE, v |-> 0]

\* line 96: parseInt(duration) || 4
SlotDuration(duration) == IF duration.num /\ duration.v # 0 THEN duration.v ELSE 4

\* the conflict test with closed intervals
intervalsOverlapClosed(startA, endA, startB, endB) == startA <= endB /\ endA >= startB

\* line 109: the conflict test of a candidate slot against a booked slot
intervalsOverlap(startA, endA, startB, endB) == startA < endB /\ endA > startB

\* lines 105-110
hasConflict(date, currentSlot, slotEnd, bookedSlots) ==
  \E bookedSlot \in bookedSlots :
    intervalsOverlap(currentSlot, slotEnd,
                     ParseMoment(date, bookedSlot.start), ParseMoment(date, bookedSlot.end))

\* the candidate loop with isBefore in place of isSameOrBefore
RECURSIVE SlotLoopExclusive(_, _, _, _, _)
SlotLoopExclusive(date, currentSlot, slotDuration, workEnd, bookedSlots) ==
  LET slotEnd == currentSlot + slotDuration * 60 IN
  IF slotEnd < workEnd
    THEN (IF hasConflict(date, currentSlot, slotEnd, bookedSlots)
            THEN <<>>
            ELSE << [start |-> FormatHHmm(currentSlot), end |-> FormatHHmm(slotEnd),
                       available |-> TRUE] >>)
         \o SlotLoopExclusive(date, currentSlot + 60, slotDuration, workEnd, bookedSlots)
    ELSE <<>>

\* lines 101-121: the candidate loop from currentSlot on
RECURSIVE SlotLoop(_, _, _, _, _)
SlotLoop(date, currentSlot, slotDuration, workEnd, bookedSlots) ==
  LET slotEnd == currentSlot + slotDuration * 60 IN
  IF slotEnd <= workEnd
    THEN (IF hasConflict(date, currentSlot, slotEnd, bookedSlots)
            THEN <<>>
            ELSE << [start |-> FormatHHmm(currentSlot), end |-> FormatHHmm(slotEnd),
                       available |-> TRUE] >>)
         \o SlotLoop(date, currentSlot + 60, slotDuration, workEnd, bookedSlots)
    ELSE <<>>

\* the slot search without the test of the verdict in line 90
findAvailableSlotsUnguarded(provider, date, duration, dbOk) ==
  LET availability == calculateAvailability(provider, date, dbOk) IN
  IF ~availability.workingHours.present
    THEN <<>>
    ELSE SlotLoop(date,
                  ParseMoment(date, availability.workingHours.start),
                  SlotDuration(duration),
                  ParseMoment(date, availability.workingHours.end),
                  availability.bookedSlots)

\* lines 86-128
findAvailableSlots(provider, date, duration, dbOk) ==
  LET availability == calculateAvailability(provider, date, dbOk) IN
  IF ~availability.available \/ ~availability.workingHours.present
    THEN <<>>
    ELSE SlotLoop(date,
                  ParseMoment(date, availability.workingHours.start),
                  SlotDuration(duration),
                  ParseMoment(date, availability.workingHours.end),
                  availability.bookedSlots)

(***************************************************************************)
(* Calls of the availability checker.                                       *)
(***************************************************************************)
ErrorResult ==
  [available |-> FALSE, reason |-> ReasonError, workingHours |-> NoEntry,
   bookedSlots |-> {}, capacity |-> NoCapacity]

NoAvailCall ==
  [made |-> FALSE, p |-> "p1", d |-> 0, dbOk |-> TRUE, repeated |-> FALSE, res |-> ErrorResult]

NoSlotsCall ==
  [made |-> FALSE, providerId |-> "p1", d |-> 0, duration |-> NotANumber, dbOk |-> TRUE,
   code |-> "none", list |-> <<>>]

NoOverlapCall == [made |-> FALSE, a |-> <<0, 0>>, b |-> <<0, 0>>, ab |-> FALSE, ba |-> FALSE]

NoResponse == [op |-> "none", code |-> "none", reason |-> "none"]

\* a check that holds the day it found available by writing it to the
\* provider's blackout dates
CalculateAvailabilityCallHolding(p, d, dbOk) ==
  /\ avail' = [made |-> TRUE, p |-> p, d |-> d, dbOk |-> dbOk,
               repeated |-> (avail.made /\ avail.p = p /\ avail.d = d),
               res |-> calculateAvailability(DocArg(p), d, dbOk)]
  /\ slots' = NoSlotsCall
  /\ tav' = NoTeamCall
  /\ providers' =
       IF calculateAvailability(DocArg(p), d, dbOk).available
         THEN [providers EXCEPT ![p].blackoutDates = @ \cup {d}]
         ELSE providers
  /\ UNCHANGED <<bookings, upd, can, lastRes, ops, ov, members, loop>>

\* a call calculateAvailability(provider, date) with a profile document;
\* repeated: the previous call had the same arguments
CalculateAvailabilityCall(p, d, dbOk) ==
  /\ avail' = [made |-> TRUE, p |-> p, d |-> d, dbOk |-> dbOk,
               repeated |-> (avail.made /\ avail.p = p /\ avail.d = d),
               res |-> calculateAvailability(DocArg(p), d, dbOk)]
  /\ slots' = NoSlotsCall
  /\ tav' = NoTeamCall
  /\ UNCHANGED <<bookings, providers, upd, can, lastRes, ops, ov, members, loop>>

\* provider ids a client may send: those of the stored profiles and one that
\* resolves to nothing
UnknownProvider == "px"

\* durations of the query string: numbers, a non-numeric string; a missing
\* parameter takes the default 4 of line 307
DurationInputs == { Num(-1), Num(0), Num(1), Num(4), NotANumber }

\* a slot search that takes the stored pending bookings of the day for
\* confirmed once it has answered
GetAvailableSlotsConfirming(providerId, date, duration, dbOk) ==
  /\ slots' =
       IF providerId \notin DOMAIN providers
         THEN [made |-> TRUE, providerId |-> providerId, d |-> date, duration |-> duration,
               dbOk |-> dbOk, code |-> "404", list |-> <<>>]
         ELSE [made |-> TRUE, providerId |-> providerId, d |-> date, duration |-> duration,
               dbOk |-> dbOk, code |-> "200",
               list |-> findAvailableSlots(DocArg(providerId), date, duration, dbOk)]
  /\ avail' = NoAvailCall
  /\ tav' = NoTeamCall
  /\ bookings' = [b \in DOMAIN bookings |->
                    IF bookings[b].date = date /\ bookings[b].status = "pending"
                      THEN [bookings[b] EXCEPT !.status = "confirmed"]
                      ELSE bookings[b]]
  /\ UNCHANGED <<providers, upd, can, lastRes, ops, ov, members, loop>>

\* getAvailableSlots, bookingController.js lines 304-327
GetAvailableSlots(providerId, date, duration, dbOk) ==
  /\ slots' =
       IF providerId \notin DOMAIN providers
         THEN [made |-> TRUE, providerId |-> providerId, d |-> date, duration |-> duration,
               dbOk |-> dbOk, code |-> "404", list |-> <<>>]
         ELSE [made |-> TRUE, providerId |-> providerId, d |-> date, duration |-> duration,
               dbOk |-> dbOk, code |-> "200",
               list |-> findAvailableSlots(DocArg(providerId), date, duration, dbOk)]
  /\ avail' = NoAvailCall
  /\ tav' = NoTeamCall
  /\ UNCHANGED <<bookings, providers, upd, can, lastRes, ops, ov, members, loop>>

(***************************************************************************)
(* findAvailableSlots step by step: the call up to the loop, then one       *)
(* iteration of the while loop of lines 101-121 per step.                   *)
(***************************************************************************)
NoLoop ==
  [pc |-> "idle", p |-> "p1", d |-> 0, duration |-> NotANumber, dbOk |-> TRUE,
   workStart |-> 0, workEnd |-> 0, slotDuration |-> 4, bookedSlots |-> {},
   currentSlot |-> 0, slots |-> <<>>]

\* lines 88-99: the availability check, the early return of line 91 (also
\* taken after the catch of calculateAvailability), the locals of the loop
LoopEnter(p, d, duration, dbOk) ==
  LET availability == calculateAvailability(DocArg(p), d, dbOk) IN
  /\ loop.pc \in {"idle", "done"}
  /\ loop' =
       IF ~availability.available \/ ~availability.workingHours.present
         THEN [NoLoop EXCEPT !.pc = "done", !.p = p, !.d = d, !.duration = duration,
                             !.dbOk = dbOk]
         ELSE [pc |-> "test", p |-> p, d |-> d, duration |-> duration, dbOk |-> dbOk,
               workStart |-> ParseMoment(d, availability.workingHours.start),
               workEnd |-> ParseMoment(d, availability.workingHours.end),
               slotDuration |-> SlotDuration(duration),
               bookedSlots |-> availability.bookedSlots,
               currentSlot |-> ParseMoment(d, availability.workingHours.start),
               slots |-> <<>>]
  /\ UNCHANGED <<bookings, providers, upd, can, lastRes, ops, avail, slots, ov, members, tav>>

\* an iteration that moves to the next hour only after pushing a slot
LoopIterStalling ==
  LET slotEnd == loop.currentSlot + loop.slotDuration * 60
      conflict == hasConflict(loop.d, loop.currentSlot, slotEnd, loop.bookedSlots)
  IN
  /\ loop.pc = "test"
  /\ loop' =
       IF slotEnd <= loop.workEnd
         THEN [loop EXCEPT
                 !.slots = IF conflict THEN @
                           ELSE Append(@, [start |-> FormatHHmm(loop.currentSlot),
                                           end |-> FormatHHmm(slotEnd), available |-> TRUE]),
                 !.currentSlot = IF conflict THEN @ ELSE @ + 60]
         ELSE [loop EXCEPT !.pc = "done"]
  /\ UNCHANGED <<bookings, providers, upd, can, lastRes, ops, avail, slots, ov, members, tav>>

\* lines 101-123: the loop test, then either one pass through the body or
\* the return of line 123
LoopIter ==
  LET slotEnd == loop.currentSlot + loop.slotDuration * 60
      conflict == hasConflict(loop.d, loop.currentSlot, slotEnd, loop.bookedSlots)
  IN
  /\ loop.pc = "test"
  /\ loop' =
       IF slotEnd <= loop.workEnd
         THEN [loop EXCEPT
                 !.slots = IF conflict THEN @
                           ELSE Append(@, [start |-> FormatHHmm(loop.currentSlot),
                                           end |-> FormatHHmm(slotEnd), available |-> TRUE]),
                 !.currentSlot = @ + 60]
         ELSE [loop EXCEPT !.pc = "done"]
  /\ UNCHANGED <<bookings, providers, upd, can, lastRes, ops, avail, slots, ov, members, tav>>

(***************************************************************************)
(* getTeamAvailability (photographerController.js; the videographer         *)
(* controller has the same handler).                                        *)
(***************************************************************************)
\* line 271: populate('teamMembers') replaces each id of the roster by its
\* TeamMember document; an id without a document is dropped
PopulatedRoster(id) == { m \in providers[id].teamMembers : m \in DOMAIN members }

\* lines 280-287: Booking.find by provider, day and status
TeamExistingBookings(id, date) ==
  { b \in DOMAIN bookings :
      /\ bookings[b].provider = id
      /\ bookings[b].date = date
      /\ bookings[b].status \in CommittedStatuses }

\* line 296, left side: assigned.member is a populated TeamMember document,
\* whose toString() is the printed document
DocToString(m) == [printed |-> "document", of |-> m]

\* line 296, right side: toString() of an ObjectId is its hex string
IdToString(m) == [printed |-> "id", of |-> m]

\* lines 294-298
isBooked(member, existingBookings) ==
  \E b \in existingBookings : \E assigned \in bookings[b].teamMembers :
    DocToString(assigned) = IdToString(member)

\* lines 290-301
availableMembers(id, existingBookings) ==
  { member \in PopulatedRoster(id) :
      members[member].isActive /\ ~isBooked(member, existingBookings) }

\* line 296 throws when an assigned member has no document (populate leaves
\* null) and the filter reaches the test for some active member
TeamLookupThrows(id, existingBookings) ==
  /\ \E member \in PopulatedRoster(id) : members[member].isActive
  /\ \E b \in existingBookings : \E assigned \in bookings[b].teamMembers :
       assigned \notin DOMAIN members

TeamResponse(id, date, code, total, available, list) ==
  [made |-> TRUE, id |-> id, d |-> date, code |-> code, total |-> total,
   available |-> available, booked |-> total - available,
   canAcceptBooking |-> available > 0, availableMembers |-> list]

\* lines 266-327.  dbOk: whether the queries resolve.
GetTeamAvailability(id, date, dbOk) ==
  /\ tav' =
       IF ~dbOk THEN TeamResponse(id, date, "500", 0, 0, {})
       ELSE IF id \notin DOMAIN providers THEN TeamResponse(id, date, "404", 0, 0, {})
       ELSE IF TeamLookupThrows(id, TeamExistingBookings(id, date))
         THEN TeamResponse(id, date, "500", 0, 0, {})
       ELSE LET list == availableMembers(id, TeamExistingBookings(id, date)) IN
            TeamResponse(id, date, "200", Cardinality(PopulatedRoster(id)),
                         Cardinality(list), list)
  /\ avail' = NoAvailCall
  /\ slots' = NoSlotsCall
  /\ UNCHANGED <<bookings, providers, upd, can, lastRes, ops, ov, members, loop>>

(***************************************************************************)
(* updateTeamMember (photographerController.js lines 236-264): the owner    *)
(* sets fields of one of its team members, here isActive.                   *)
(***************************************************************************)
UpdateTeamMember(id, memberId, isActive) ==
  /\ ops < MaxOps
  /\ ops' = ops + 1
  /\ IF id \notin DOMAIN providers
       THEN /\ members' = members
            /\ lastRes' = [op |-> "updateTeamMember", code |-> "404", reason |-> "none"]
       ELSE IF memberId \in DOMAIN members /\ members[memberId].owner = id
         THEN /\ members' = [members EXCEPT ![memberId].isActive = isActive]
              /\ lastRes' = [op |-> "updateTeamMember", code |-> "200", reason |-> "none"]
         ELSE /\ members' = members
              /\ lastRes' = [op |-> "updateTeamMember", code |-> "404", reason |-> "none"]
  /\ UNCHANGED <<bookings, providers, upd, can, avail, slots, ov, tav, loop>>

(***************************************************************************)
(* Profile updates: updatePhotographer (photographerController.js lines     *)
(* 180-203), updateVideographer and updateAvailability of the videographer  *)
(* controller, each behind authorizeProviderAccess (roleAuth.js lines       *)
(* 18-45).  p1 is a photographer profile, p2 a videographer profile.        *)
(***************************************************************************)
\* the user a profile document refers to in its field user
UserOf(p) == IF p = "p1" THEN "u1" ELSE "u2"

Photographers == {"p1"}

Videographers == {"p2"}

\* values of the route parameter :id: ids of profiles and ids of users
RouteIds == Providers \cup { UserOf(p) : p \in Providers }

\* roleAuth.js line 32: Model.findOne({ user: id }) over the profiles of the
\* caller's role; without a match the request is answered 403
authorizeProviderAccess(Model, id) == \E p \in Model : UserOf(p) = id

\* an available entry whose start is after its end
InvertedEntry == WorkEntry(TRUE, HHMM(18, 0), HHMM(9, 0))

\* weekday entries a request body carries
EntryInputs == {DayShift, EveningClosed, EveningShort, InvertedEntry}

\* a body that replaces the working hours as a whole: the same entry for
\* monday and tuesday, no other day
WeekOf(entry) == [w \in Weekdays |-> IF w \in {"monday", "tuesday"} THEN entry ELSE NoEntry]

\* updatePhotographer with a body that sets availability.workingHours.<day>;
\* the schema has no validator on start and end, so runValidators accepts
\* every entry
UpdatePhotographer(id, day, entry) ==
  LET found == { p \in Photographers : UserOf(p) = id } IN
  /\ ops < MaxOps
  /\ ops' = ops + 1
  /\ IF ~authorizeProviderAccess(Photographers, id)
       THEN /\ providers' = providers
            /\ lastRes' = [op |-> "updatePhotographer", code |-> "403", reason |-> "none"]
       ELSE IF found = {}
         THEN /\ providers' = providers
              /\ lastRes' = [op |-> "updatePhotographer", code |-> "404", reason |-> "none"]
         ELSE /\ providers' = [p \in DOMAIN providers |->
                                IF p = CHOOSE q \in found : TRUE
                                  THEN [providers[p] EXCEPT !.workingHours[day] = entry]
                                  ELSE providers[p]]
              /\ lastRes' = [op |-> "updatePhotographer", code |-> "200", reason |-> "none"]
  /\ UNCHANGED <<bookings, upd, can, avail, slots, ov, members, tav, loop>>

\* updateVideographer, lines 862-885 of the videographer controller: the
\* filter is { _id: id, user: req.user._id }
UpdateVideographer(caller, id, day, entry) ==
  LET found == { p \in Videographers : p = id /\ UserOf(p) = caller } IN
  /\ ops < MaxOps
  /\ ops' = ops + 1
  /\ IF ~authorizeProviderAccess(Videographers, id)
       THEN /\ providers' = providers
            /\ lastRes' = [op |-> "updateVideographer", code |-> "403", reason |-> "none"]
       ELSE IF found = {}
         THEN /\ providers' = providers
              /\ lastRes' = [op |-> "updateVideographer", code |-> "404", reason |-> "none"]
         ELSE /\ providers' = [p \in DOMAIN providers |->
                                IF p = CHOOSE q \in found : TRUE
                                  THEN [providers[p] EXCEPT !.workingHours[day] = entry]
                                  ELSE providers[p]]
              /\ lastRes' = [op |-> "updateVideographer", code |-> "200", reason |-> "none"]
  /\ UNCHANGED <<bookings, upd, can, avail, slots, ov, members, tav, loop>>

\* updateAvailability, lines 1143-1169 of the videographer controller
UpdateAvailability(caller, id, workingHours, blackoutDates) ==
  LET found == { p \in Videographers : p = id /\ UserOf(p) = caller } IN
  /\ ops < MaxOps
  /\ ops' = ops + 1
  /\ IF ~authorizeProviderAccess(Videographers, id)
       THEN /\ providers' = providers
            /\ lastRes' = [op |-> "updateAvailability", code |-> "403", reason |-> "none"]
       ELSE IF found = {}
         THEN /\ providers' = providers
              /\ lastRes' = [op |-> "updateAvailability", code |-> "404", reason |-> "none"]
         ELSE /\ providers' = [p \in DOMAIN providers |->
                                IF p = CHOOSE q \in found : TRUE
                                  THEN [providers[p] EXCEPT !.workingHours = workingHours,
                                                            !.blackoutDates = blackoutDates]
                                  ELSE providers[p]]
              /\ lastRes' = [op |-> "updateAvailability", code |-> "200", reason |-> "none"]
  /\ UNCHANGED <<bookings, upd, can, avail, slots, ov, members, tav, loop>>

(***************************************************************************)
(* createBooking, bookingController.js lines 9-74.                          *)
(* ProviderModel.find({ user: providerId }) resolves to an array, which is  *)
(* never falsy, so the 404 of line 26 is never sent, and                    *)
(* calculateAvailability is given the array.                                *)
(***************************************************************************)
CreateBooking(providerId, date, window, dbOk) ==
  LET availability == calculateAvailability(ArrayArg, date, dbOk) IN
  /\ ops < MaxOps
  /\ ops' = ops + 1
  /\ IF ~availability.available
       THEN /\ lastRes' = [op |-> "createBooking", code |-> "400", reason |-> availability.reason]
            /\ bookings' = bookings
       ELSE /\ NewBookingId \notin DOMAIN bookings
            /\ bookings' = [b \in DOMAIN bookings \cup {NewBookingId} |->
                              IF b = NewBookingId
                                THEN NewBooking(providerId, date, window[1], window[2])
                                ELSE bookings[b]]
            /\ lastRes' = [op |-> "createBooking", code |-> "201", reason |-> "none"]
  /\ UNCHANGED <<providers, upd, can, avail, slots, ov, members, tav, loop>>

(***************************************************************************)
(* The booking status operations under concurrent requests.                 *)
(***************************************************************************)
Init ==
  /\ bookings \in InitBookings
  /\ providers = DefaultProviders
  /\ upd = [r \in Reqs |-> IdleReq]
  /\ can = IdleCancel
  /\ lastRes = NoResponse
  /\ ops = 0
  /\ avail = NoAvailCall
  /\ slots = NoSlotsCall
  /\ ov = NoOverlapCall
  /\ members = DefaultTeam
  /\ tav = NoTeamCall
  /\ loop = NoLoop

Next ==
  \/ \E r \in Reqs, caller \in Providers, id \in BookingIds, status \in StatusInputs,
        ta \in TeamAssignmentInputs : UpdRead(r, caller, id, status, ta)
  \/ \E r \in Reqs : UpdWrite(r)
  \/ \E id \in BookingIds, status \in StatusInputs : AdminUpdateBookingStatus(id, status)
  \/ \E id \in BookingIds, isClient \in BOOLEAN : CancelRead(id, isClient)
  \/ CancelSave
  \/ \E providerId \in Providers \cup {UnknownProvider}, date \in Dates, window \in RequestWindows,
        dbOk \in BOOLEAN : CreateBooking(providerId, date, window, dbOk)

Spec == Init /\ [][Next]_vars

(***************************************************************************)
(* The availability checker over stores the status operations can produce.  *)
(***************************************************************************)
\* weekday entries of p1's Monday
MondayEntries == {NoEntry, EveningClosed, EveningShort, EveningLong, DayShift}

AvailProviders ==
  { [p \in Providers |->
       IF p = "p1"
         THEN ProviderDoc([w \in Weekdays |->
                             IF w = "monday" THEN mon
                             ELSE IF w = "tuesday" THEN EveningLong ELSE NoEntry],
                          blackout, RosterOf(p), EquipmentOf(p))
         ELSE DefaultProviders[p]] :
    mon \in MondayEntries, blackout \in SUBSET Dates }

\* a stored booking after status updates
StoredBooking(shape, status, tm) == [shape EXCEPT !.status = status, !.teamMembers = tm]

\* status and team members of the second booking
SecondStates ==
  { <<"pending", {}>>, <<"confirmed", {}>>, <<"confirmed", {"m1"}>>, <<"in_progress", {"m1"}>> }

AvailBookings ==
  { [b \in BookingIds |-> IF b = "b1" THEN first ELSE second] :
    first \in { StoredBooking(NewBooking("p1", 0, HHMM(21, 0), HHMM(22, 0)), st, tm) :
                st \in {"confirmed", "cancelled"}, tm \in {{}, {"m1", "m2"}} },
    second \in { StoredBooking(shape, x[1], x[2]) : shape \in SecondBookings, x \in SecondStates } }

InitAvail ==
  /\ bookings \in AvailBookings
  /\ providers \in AvailProviders
  /\ upd = [r \in Reqs |-> IdleReq]
  /\ can = IdleCancel
  /\ lastRes = NoResponse
  /\ ops = 0
  /\ avail = NoAvailCall
  /\ slots = NoSlotsCall
  /\ ov = NoOverlapCall
  /\ members = DefaultTeam
  /\ tav = NoTeamCall
  /\ loop = NoLoop

\* a failing booking query is answered before the duration is read and an
\* unknown provider before the booking query, so these requests are explored
\* with one duration
NextAvail ==
  \/ \E p \in Providers, d \in Dates : CalculateAvailabilityCall(p, d, TRUE)
  \/ \E d \in Dates : CalculateAvailabilityCall("p1", d, FALSE)
  \/ \E date \in Dates, duration \in DurationInputs : GetAvailableSlots("p1", date, duration, TRUE)
  \/ \E date \in Dates : GetAvailableSlots("p1", date, Num(4), FALSE)
  \/ \E date \in Dates : GetAvailableSlots(UnknownProvider, date, Num(4), TRUE)

SpecAvail == InitAvail /\ [][NextAvail]_vars

(***************************************************************************)
(* Status changes, cancellations and team updates of one provider, followed *)
(* by the availability queries.                                             *)
(***************************************************************************)
\* b1 is held by m1; b2 is another booking of the day or of the next
LifeBookings ==
  { [b \in BookingIds |-> IF b = "b1" THEN first ELSE second] :
    first \in { StoredBooking(NewBooking("p1", 0, HHMM(21, 0), HHMM(22, 0)), "confirmed", {"m1"}) },
    second \in { StoredBooking(NewBooking("p1", 0, HHMM(22, 0), HHMM(23, 0)), "confirmed", {"m2"}),
                 StoredBooking(NewBooking("p1", MaxDate, HHMM(21, 0), HHMM(22, 0)), "pending", {}) } }

\* request bodies of the provider in SpecLife: a confirmation that assigns
\* m1, a cancellation
LifeRequests ==
  { <<"confirmed", Assignment(TRUE, {"m1"}, FALSE, {})>>, <<"cancelled", NoAssignment>> }

InitLife ==
  /\ bookings \in LifeBookings
  /\ providers = DefaultProviders
  /\ upd = [r \in Reqs |-> IdleReq]
  /\ can = IdleCancel
  /\ lastRes = NoResponse
  /\ ops = 0
  /\ avail = NoAvailCall
  /\ slots = NoSlotsCall
  /\ ov = NoOverlapCall
  /\ members = DefaultTeam
  /\ tav = NoTeamCall
  /\ loop = NoLoop

NextLife ==
  \/ \E id \in BookingIds, body \in LifeRequests : UpdRead("r1", "p1", id, body[1], body[2])
  \/ UpdWrite("r1")
  \/ \E id \in BookingIds : AdminUpdateBookingStatus(id, "completed")
  \/ \E id \in BookingIds, isClient \in BOOLEAN : CancelRead(id, isClient)
  \/ CancelSave
  \/ \E isActive \in BOOLEAN : UpdateTeamMember("p1", "m1", isActive)
  \/ \E d \in Dates : CalculateAvailabilityCall("p1", d, TRUE)
  \/ \E d \in Dates : GetAvailableSlots("p1", d, Num(1), TRUE)
  \/ \E d \in Dates : GetTeamAvailability("p1", d, TRUE)

SpecLife == InitLife /\ [][NextLife]_vars

(***************************************************************************)
(* Profile and availability updates, followed by availability checks.       *)
(***************************************************************************)
InitProfile ==
  /\ bookings \in LifeBookings
  /\ providers = DefaultProviders
  /\ upd = [r \in Reqs |-> IdleReq]
  /\ can = IdleCancel
  /\ lastRes = NoResponse
  /\ ops = 0
  /\ avail = NoAvailCall
  /\ slots = NoSlotsCall
  /\ ov = NoOverlapCall
  /\ members = DefaultTeam
  /\ tav = NoTeamCall
  /\ loop = NoLoop

NextProfile ==
  \/ \E id \in RouteIds, day \in {"monday", "tuesday"}, entry \in EntryInputs :
        UpdatePhotographer(id, day, entry)
  \/ \E id \in RouteIds, day \in {"monday", "tuesday"}, entry \in EntryInputs :
        UpdateVideographer("u2", id, day, entry)
  \/ \E id \in RouteIds, entry \in EntryInputs, blackoutDates \in SUBSET Dates :
        UpdateAvailability("u2", id, WeekOf(entry), blackoutDates)
  \/ \E p \in Providers, d \in Dates : CalculateAvailabilityCall(p, d, TRUE)

SpecProfile == InitProfile /\ [][NextProfile]_vars

(***************************************************************************)
(* The slot search as a loop.  The body of the loop is synchronous code:    *)
(* once entered, the engine runs it to its end without yielding, which is   *)
(* the weak fairness of LoopIter.                                           *)
(***************************************************************************)
InitLoop ==
  /\ bookings \in LifeBookings
  /\ providers \in AvailProviders
  /\ upd = [r \in Reqs |-> IdleReq]
  /\ can = IdleCancel
  /\ lastRes = NoResponse
  /\ ops = 0
  /\ avail = NoAvailCall
  /\ slots = NoSlotsCall
  /\ ov = NoOverlapCall
  /\ members = DefaultTeam
  /\ tav = NoTeamCall
  /\ loop = NoLoop

NextLoop ==
  \/ \E d \in Dates, duration \in DurationInputs, dbOk \in BOOLEAN : LoopEnter("p1", d, duration, dbOk)
  \/ LoopIter

SpecLoop == InitLoop /\ [][NextLoop]_vars /\ WF_vars(LoopIter)

(***************************************************************************)
(* The slot conflict test on its own.                                       *)
(***************************************************************************)
\* instants of day 0: 21:00, 21:30, 22:00, 23:00
TimePoints ==
  { ParseMoment(0, t) : t \in {HHMM(21, 0), HHMM(21, 30), HHMM(22, 0), HHMM(23, 0)} }

\* the test of line 109 for candidate a against booked slot b, and for b
\* against a
OverlapCheck(a, b) ==
  /\ ov' = [made |-> TRUE, a |-> a, b |-> b,
            ab |-> intervalsOverlap(a[1], a[2], b[1], b[2]),
            ba |-> intervalsOverlap(b[1], b[2], a[1], a[2])]
  /\ UNCHANGED <<bookings, providers, upd, can, lastRes, ops, avail, slots, members, tav, loop>>

InitOverlap ==
  /\ bookings \in InitBookings
  /\ providers = DefaultProviders
  /\ upd = [r \in Reqs |-> IdleReq]
  /\ can = IdleCancel
  /\ lastRes = NoResponse
  /\ ops = 0
  /\ avail = NoAvailCall
  /\ slots = NoSlotsCall
  /\ ov = NoOverlapCall
  /\ members = DefaultTeam
  /\ tav = NoTeamCall
  /\ loop = NoLoop

NextOverlap == \E a \in TimePoints \X TimePoints, b \in TimePoints \X TimePoints : OverlapCheck(a, b)

SpecOverlap == InitOverlap /\ [][NextOverlap]_vars

(***************************************************************************)
(* Properties of the booking status operations.                             *)
(***************************************************************************)
\* a confirmation with a teamAssignment (guardAndAssign)
IsConfirmation(r) == r.status = "confirmed" /\ r.ta.present

\* the units a request proposes
ProposedUnits(r) ==
  (IF r.ta.hasTM THEN r.ta.tm ELSE {}) \cup (IF r.ta.hasEQ THEN r.ta.eq ELSE {})

\* two bookings on the same date with overlapping [startTime, endTime)
BookingsOverlap(a, b) ==
  /\ a.date = b.date
  /\ TimeOfDay(a.startTime) < TimeOfDay(b.endTime)
  /\ TimeOfDay(b.startTime) < TimeOfDay(a.endTime)

UnitsOfBooking(b) == b.teamMembers \cup b.equipment

\* two completed confirmations of overlapping bookings of one provider that
\* share a unit, one of which wrote while the other was between its read and
\* its write
RacingConfirmations(r1, r2) ==
  /\ upd[r1].pc = "done" /\ upd[r2].pc = "done"
  /\ upd[r1].res # "404" /\ upd[r2].res # "404"
  /\ IsConfirmation(upd[r1]) /\ IsConfirmation(upd[r2])
  /\ upd[r1].id # upd[r2].id
  /\ bookings[upd[r1].id].provider = bookings[upd[r2].id].provider
  /\ BookingsOverlap(bookings[upd[r1].id], bookings[upd[r2].id])
  /\ ProposedUnits(upd[r1]) \cap ProposedUnits(upd[r2]) # {}
  /\ upd[r1].raced \/ upd[r2].raced

\* C1: of two racing confirmations of overlapping bookings of one provider
\* that share a unit at most one succeeds, the other is answered
\* AssignmentConflict.
C1_AtMostOneConfirmationSucceeds ==
  \A r1 \in Reqs : \A r2 \in Reqs \ {r1} :
    RacingConfirmations(r1, r2) =>
      /\ ~(upd[r1].res = "200" /\ upd[r2].res = "200")
      /\ upd[r1].res = "AssignmentConflict" \/ upd[r2].res = "AssignmentConflict"

\* C2: no unit is in the teamAssignment of two distinct confirmed or
\* in_progress bookings on the same date with overlapping windows.
C2_NoDoubleAssignment ==
  \A a \in DOMAIN bookings : \A b \in DOMAIN bookings \ {a} :
    ( /\ bookings[a].status \in CommittedStatuses
      /\ bookings[b].status \in CommittedStatuses
      /\ BookingsOverlap(bookings[a], bookings[b]) )
    => UnitsOfBooking(bookings[a]) \cap UnitsOfBooking(bookings[b]) = {}

\* the proposed units of r that another confirmed or in_progress booking of
\* the same provider with an overlapping window already holds
ConflictingUnits(r) ==
  { u \in ProposedUnits(r) :
      \E o \in DOMAIN bookings \ {r.id} :
        /\ bookings[o].provider = bookings[r.id].provider
        /\ bookings[o].status \in CommittedStatuses
        /\ BookingsOverlap(bookings[o], bookings[r.id])
        /\ u \in UnitsOfBooking(bookings[o]) }

\* the step in which request r finishes after its read
Finishes(r) == upd[r].pc = "read" /\ upd'[r].pc = "done"

\* C3: a confirmation that proposes a unit held by an overlapping confirmed or
\* in_progress booking of the same provider fails with AssignmentConflict
\* naming the unit, and leaves the target booking as it was.
C3_ConflictingConfirmationRejected ==
  [][ \A r \in Reqs :
        (Finishes(r) /\ IsConfirmation(upd[r]) /\ ConflictingUnits(upd[r]) # {}) =>
          /\ upd'[r].res = "AssignmentConflict"
          /\ ConflictingUnits(upd[r]) \subseteq upd'[r].named
          /\ bookings'[upd[r].id] = bookings[upd[r].id] ]_vars

\* C4: a successful confirmation writes the new status and the new
\* teamAssignment in one step, and a teamAssignment field the request does not
\* supply keeps the value the store holds at the write: it is not replaced by
\* the value read before a concurrent request wrote it.
C4_AtomicCommitNoStaleOverwrite ==
  [][ \A r \in Reqs :
        (Finishes(r) /\ upd'[r].res = "200" /\ IsConfirmation(upd[r])) =>
          LET old == bookings[upd[r].id]
              new == bookings'[upd[r].id]
          IN /\ new.status = "confirmed"
             /\ upd[r].ta.hasTM => new.teamMembers = upd[r].ta.tm
             /\ upd[r].ta.hasEQ => new.equipment = upd[r].ta.eq
             /\ ~upd[r].ta.hasTM => new.teamMembers = old.teamMembers
             /\ ~upd[r].ta.hasEQ => new.equipment = old.equipment ]_vars

(***************************************************************************)
(* Properties of the availability checker.                                  *)
(***************************************************************************)
\* the working-hours entry of the day of the last slot search
SlotsEntry == providers[slots.providerId].workingHours[dayOfWeek(slots.d)]

\* confirmed and in_progress bookings of provider p on date d
CommittedOn(p, d) ==
  { b \in DOMAIN bookings :
      bookings[b].provider = p /\ bookings[b].date = d
      /\ bookings[b].status \in CommittedStatuses }

\* C5: every returned slot starts at or after the working-hours start, ends
\* at or before the working-hours end and overlaps (half-open) no confirmed
\* or in_progress booking of the provider on that date.
C5_SlotsWithinHoursAndFree ==
  (slots.made /\ slots.code = "200") =>
    \A i \in 1..Len(slots.list) :
      LET s == slots.list[i] IN
      /\ TimeOfDay(s.start) >= TimeOfDay(SlotsEntry.start)
      /\ TimeOfDay(s.end) <= TimeOfDay(SlotsEntry.end)
      /\ \A b \in CommittedOn(slots.providerId, slots.d) :
           ~( TimeOfDay(s.start) < TimeOfDay(bookings[b].endTime)
              /\ TimeOfDay(bookings[b].startTime) < TimeOfDay(s.end) )

\* C6: the conflict test is symmetric, is true exactly when startA < endB and
\* startB < endA, and is false for intervals that only touch.
C6_OverlapSymmetricHalfOpen ==
  ov.made =>
    /\ ov.ab = ov.ba
    /\ ov.ab = (ov.a[1] < ov.b[2] /\ ov.b[1] < ov.a[2])
    /\ (ov.a[2] = ov.b[1] \/ ov.b[2] = ov.a[1]) => ~ov.ab

\* C6 witness: the test has run on two proper intervals that touch
C6_TouchingIntervalsTested ==
  /\ ov.made
  /\ ov.a[1] < ov.a[2] /\ ov.b[1] < ov.b[2]
  /\ ov.a[2] = ov.b[1]
  /\ ~ov.ab

\* the weekday entry of the day of the last availability check
AvailEntry == providers[avail.p].workingHours[dayOfWeek(avail.d)]

AvailDayOpen == AvailEntry.present /\ AvailEntry.available

AvailBlackout == avail.d \in providers[avail.p].blackoutDates

C9_ChecksLeaveStoreUnchanged ==
  [][ (avail'.made \/ slots'.made) => (bookings' = bookings /\ providers' = providers) ]_vars

\* C9 witness: a slot search has returned slots on a day with a pending
\* booking in the store
C9_SlotsReturnedWithPendingBooking ==
  /\ slots.made /\ slots.code = "200" /\ Len(slots.list) > 0
  /\ \E b \in DOMAIN bookings : bookings[b].date = slots.d /\ bookings[b].status = "pending"

\* C10: on an eligible day the check reports available exactly when the free
\* units are at least the one unit required, with reason null when available
\* and the capacity reason otherwise; two team members both assigned to one
\* confirmed booking of the day give not available.
C10_AvailableIffFreeUnit ==
  (avail.made /\ avail.dbOk /\ AvailDayOpen /\ ~AvailBlackout) =>
    /\ avail.res.capacity.present
    /\ avail.res.available = (avail.res.capacity.available >= 1)
    /\ avail.res.reason = (IF avail.res.available THEN ReasonNull ELSE ReasonCapacity)
    /\ ( /\ Cardinality(providers[avail.p].teamMembers) = 2
         /\ \E b \in CommittedOn(avail.p, avail.d) :
              bookings[b].status = "confirmed"
              /\ bookings[b].teamMembers = providers[avail.p].teamMembers )
       => (~avail.res.available /\ avail.res.reason = ReasonCapacity)

\* C10 witness: both team members are assigned to the one confirmed booking
\* of the day and the check has answered not available
C10_BothMembersBookedChecked ==
  /\ avail.made /\ avail.dbOk /\ AvailDayOpen /\ ~AvailBlackout
  /\ Cardinality(providers[avail.p].teamMembers) = 2
  /\ Cardinality(CommittedOn(avail.p, avail.d)) = 1
  /\ \E b \in CommittedOn(avail.p, avail.d) :
       bookings[b].status = "confirmed"
       /\ bookings[b].teamMembers = providers[avail.p].teamMembers
  /\ ~avail.res.available

(***************************************************************************)
(* Properties of the booking life cycle.                                    *)
(***************************************************************************)
\* the time of day that is x minutes after midnight
TimeAt(x) == HHMM(x \div 60, x % 60)

\* the candidate windows of h hours at every whole hour from the start of a
\* working-hours entry that end at or before its end
HourlyCandidates(entry, h) ==
  { <<TimeOfDay(entry.start) + 60 * k, TimeOfDay(entry.start) + 60 * k + 60 * h>> :
      k \in { j \in 0..23 : TimeOfDay(entry.start) + 60 * j + 60 * h <= TimeOfDay(entry.end) } }

\* the candidates that overlap no confirmed or in_progress booking of
\* provider p on date d, as slots
FreeSlots(p, d, h) ==
  { [start |-> TimeAt(c[1]), end |-> TimeAt(c[2]), available |-> TRUE] :
      c \in { x \in HourlyCandidates(providers[p].workingHours[dayOfWeek(d)], h) :
                \A b \in CommittedOn(p, d) :
                  ~( x[1] < TimeOfDay(bookings[b].endTime)
                     /\ TimeOfDay(bookings[b].startTime) < x[2] ) } }

\* the elements of a sequence
Range(seq) == { seq[i] : i \in 1..Len(seq) }

\* a booking that left the committed statuses while holding team members
ReleasedWithTeam(b) ==
  bookings[b].status \in {"completed", "cancelled"} /\ bookings[b].teamMembers # {}

\* C11: a booking whose status is completed or cancelled is ignored by every
\* later availability check, slot search and team-availability query of its
\* provider and date: the booked slots and the booked capacity come from the
\* confirmed and in_progress bookings only, the slots are those free of such
\* bookings, and a member assigned to released bookings only is listed.
C11_ReleasedBookingsIgnored ==
  [][ /\ (avail'.made /\ avail' # avail /\ avail'.res.capacity.present) =>
           /\ { x.bookingId : x \in avail'.res.bookedSlots } = CommittedOn(avail'.p, avail'.d)
           /\ avail'.res.capacity.booked = SumUnits(CommittedOn(avail'.p, avail'.d))
      /\ (slots'.made /\ slots' # slots /\ slots'.code = "200" /\ slots'.duration.num
            /\ calculateAvailability(DocArg(slots'.providerId), slots'.d, TRUE).available) =>
           Range(slots'.list) = FreeSlots(slots'.providerId, slots'.d, slots'.duration.v)
      /\ (tav'.made /\ tav' # tav /\ tav'.code = "200") =>
           \A m \in providers[tav'.id].teamMembers :
             ( members[m].isActive
               /\ \A b \in CommittedOn(tav'.id, tav'.d) : m \notin bookings[b].teamMembers )
             => m \in tav'.availableMembers ]_vars

\* C11 witness: b1 was cancelled by cancelBooking while m1 was assigned to
\* it, and the availability check of its day that followed counts no unit
\* for it
C11_CancelledBookingChecked ==
  /\ can.res = "200" /\ can.id = "b1"
  /\ ReleasedWithTeam("b1")
  /\ avail.made /\ avail.p = bookings["b1"].provider /\ avail.d = bookings["b1"].date
  /\ avail.res.capacity.present
  /\ "b1" \notin { x.bookingId : x \in avail.res.bookedSlots }

\* cancelBooking line 242: the statuses of a booking that cannot be cancelled
TerminalStatuses == {"completed", "cancelled"}

\* C12: once a booking is completed or cancelled no operation changes its
\* status again, and a cancelBooking request that finds it so is rejected
\* with 400 and does not go on to its save.
C12_TerminalStatusesFinal ==
  [][ /\ \A b \in DOMAIN bookings :
           bookings[b].status \in TerminalStatuses =>
             bookings'[b].status = bookings[b].status
      /\ (can.pc # "read" /\ can'.pc = "read") =>
           bookings[can'.id].status \notin TerminalStatuses
      /\ ( /\ can'.pc = "done" /\ can' # can /\ can.pc # "read"
           /\ can'.id \in DOMAIN bookings
           /\ bookings[can'.id].status \in TerminalStatuses
           /\ can'.res # "403" )
         => (can'.res = "400" /\ bookings' = bookings) ]_vars

\* the status changes of the booking state machine
AllowedTransitions ==
  { <<"pending", "confirmed">>, <<"confirmed", "in_progress">>, <<"in_progress", "completed">> }
  \cup ({"pending", "confirmed", "in_progress"} \X {"cancelled", "disputed"})

\* C13: every change of a stored booking's status is an allowed transition
\* and its new status is one of the six declared values.
C13_OnlyAllowedTransitions ==
  [][ \A b \in DOMAIN bookings :
        bookings'[b].status # bookings[b].status =>
          /\ <<bookings[b].status, bookings'[b].status>> \in AllowedTransitions
          /\ bookings'[b].status \in Statuses ]_vars

\* C19: the write of a confirmation is conditional on the status that was
\* read: when the stored status has changed since the read, by cancelBooking
\* or by another status change, the write leaves it as it is.
C19_ConfirmationKeepsNewerStatus ==
  [][ \A r \in Reqs :
        ( /\ Finishes(r) /\ upd[r].status = "confirmed"
          /\ bookings[upd[r].id].status # upd[r].snapStatus )
        => bookings'[upd[r].id].status = bookings[upd[r].id].status ]_vars

(***************************************************************************)
(* Further properties of the availability checker.                          *)
(***************************************************************************)
\* the day of the last slot search is a working day, not a blackout date
SlotsDayEligible ==
  /\ SlotsEntry.present /\ SlotsEntry.available
  /\ slots.d \notin providers[slots.providerId].blackoutDates

\* the last slot search found no confirmed or in_progress booking on its
\* day and a roster with a free member
SlotsDayFree ==
  /\ slots.made /\ slots.code = "200" /\ slots.dbOk
  /\ SlotsDayEligible
  /\ CommittedOn(slots.providerId, slots.d) = {}
  /\ Cardinality(providers[slots.providerId].teamMembers) > 0

SlotOf(s, e) == [start |-> s, end |-> e, available |-> TRUE]

Ineligible(p, d) ==
  \/ d \in providers[p].blackoutDates
  \/ ~providers[p].workingHours[dayOfWeek(d)].present
  \/ ~providers[p].workingHours[dayOfWeek(d)].available
  \/ Cardinality(providers[p].teamMembers) - SumUnits(CommittedOn(p, d)) <= 0

\* the reasons of a not-available verdict
VerdictReasons == {ReasonDay, ReasonBlackout, ReasonCapacity, ReasonError}

Inverted(window) == TimeOfDay(window[2]) <= TimeOfDay(window[1])

\* C16: a createBooking request with an inverted or empty time window is
\* answered InvalidInterval whether or not the booking query would resolve
\* (it is rejected before the query), and no stored booking has
\* endTime <= startTime.
C16_InvertedWindowRejectedFirst ==
  [][ /\ \A providerId \in Providers \cup {UnknownProvider}, date \in Dates,
            window \in RequestWindows, dbOk \in BOOLEAN :
           (CreateBooking(providerId, date, window, dbOk) /\ Inverted(window)) =>
             /\ lastRes'.code = "400"
             /\ lastRes'.reason = "InvalidInterval"
             /\ bookings' = bookings
      /\ \A b \in DOMAIN bookings' :
           ~Inverted(<<bookings'[b].startTime, bookings'[b].endTime>>) ]_vars

\* C17: createBooking and getAvailableSlots with a provider id that resolves
\* to no stored provider answer 404, give no availability verdict and store
\* no booking.
C17_UnknownProviderNotFound ==
  [][ /\ \A date \in Dates, window \in RequestWindows, dbOk \in BOOLEAN :
           CreateBooking(UnknownProvider, date, window, dbOk) =>
             (lastRes'.code = "404" /\ bookings' = bookings)
      /\ (slots'.made /\ slots' # slots /\ slots'.providerId \notin DOMAIN providers) =>
           (slots'.code = "404" /\ slots'.list = <<>> /\ bookings' = bookings) ]_vars

(***************************************************************************)
(* Properties of the team capacity.                                         *)
(***************************************************************************)
\* the members of provider p's roster whose isActive flag is set
ActiveRoster(p) == { m \in providers[p].teamMembers : members[m].isActive }

\* C18: an inactive team member is never assignable: a step that confirms a
\* booking or changes a confirmed booking leaves only active members in its
\* teamAssignment, getTeamAvailability lists and counts active members only,
\* and the free capacity of calculateAvailability does not exceed the number
\* of active members.
C18_InactiveMemberNeverAssignable ==
  [][ /\ \A b \in DOMAIN bookings :
           (bookings'[b].status = "confirmed" /\ bookings'[b] # bookings[b]) =>
             \A m \in bookings'[b].teamMembers : members[m].isActive
      /\ (tav'.made /\ tav' # tav /\ tav'.code = "200") =>
           /\ \A m \in tav'.availableMembers : members[m].isActive
           /\ tav'.available <= Cardinality(ActiveRoster(tav'.id))
      /\ (avail'.made /\ avail' # avail /\ avail'.res.capacity.present) =>
           avail'.res.capacity.available <= Cardinality(ActiveRoster(avail'.p)) ]_vars

\* the active members of provider p that are in the teamAssignment of some
\* confirmed or in_progress booking of p on date d
CommittedMembers(p, d) ==
  { m \in ActiveRoster(p) : \E b \in CommittedOn(p, d) : m \in bookings[b].teamMembers }

\* C20: the capacity record of an availability check has total = the number
\* of active team members, booked = the number of distinct such members
\* assigned to a confirmed or in_progress booking of the date, and
\* available = total - booked; a booking with an empty teamAssignment adds
\* nothing and a member of two bookings counts once.
C20_CapacityCountsDistinctActiveMembers ==
  (avail.made /\ avail.res.capacity.present) =>
    /\ avail.res.capacity.total = Cardinality(ActiveRoster(avail.p))
    /\ avail.res.capacity.booked = Cardinality(CommittedMembers(avail.p, avail.d))
    /\ avail.res.capacity.available =
         avail.res.capacity.total - avail.res.capacity.booked

(***************************************************************************)
(* Properties of the weekday policy and of the slot list.                   *)
(***************************************************************************)
\* C21: on a date that is not a blackout date the check answers not
\* available with the day-unavailable reason exactly when the weekday entry
\* is absent or not available; otherwise the result carries the start and
\* end of that entry.
C21_DayUnavailableIffEntryClosed ==
  (avail.made /\ avail.dbOk /\ ~AvailBlackout) =>
    /\ (~avail.res.available /\ avail.res.reason = ReasonDay) <=> ~AvailDayOpen
    /\ AvailDayOpen =>
         /\ avail.res.reason # ReasonDay
         /\ avail.res.workingHours.present
         /\ avail.res.workingHours.start = AvailEntry.start
         /\ avail.res.workingHours.end = AvailEntry.end

\* C21 witness: a check of a date that is no blackout date on a weekday
\* whose entry says available = false has answered with the day reason
C21_ClosedWeekdayChecked ==
  /\ avail.made /\ avail.dbOk /\ ~AvailBlackout
  /\ AvailEntry.present /\ ~AvailEntry.available
  /\ avail.res.reason = ReasonDay

\* C22: the slots of a search come in strictly increasing order of start
\* time, without duplicates, every start is the working-hours start plus a
\* whole number of hours, and the list is empty when no candidate is valid.
C22_SlotsIncreasingHourlySteps ==
  (slots.made /\ slots.code = "200") =>
    /\ \A i \in 1..Len(slots.list) : \A j \in 1..Len(slots.list) :
         i < j => TimeOfDay(slots.list[i].start) < TimeOfDay(slots.list[j].start)
    /\ \A i \in 1..Len(slots.list) :
         /\ TimeOfDay(slots.list[i].start) >= TimeOfDay(SlotsEntry.start)
         /\ (TimeOfDay(slots.list[i].start) - TimeOfDay(SlotsEntry.start)) % 60 = 0

\* C24: a failure of the booking query during a slot search reaches the
\* caller as an error outcome, not as the answer 200 with an empty list of
\* slots.
C24_StoreFailureSurfacesAsError ==
  (slots.made /\ ~slots.dbOk /\ slots.providerId \in DOMAIN providers) => slots.code # "200"

\* C27: for every duration argument every returned slot has its start
\* strictly before its end and lasts the effective duration.
C27_SlotsStartBeforeEnd ==
  (slots.made /\ slots.code = "200") =>
    \A i \in 1..Len(slots.list) :
      /\ TimeOfDay(slots.list[i].start) < TimeOfDay(slots.list[i].end)
      /\ TimeOfDay(slots.list[i].end) - TimeOfDay(slots.list[i].start)
           = SlotDuration(slots.duration) * 60

\* C30: in every result with a capacity record 0 <= available <= total,
\* booked <= total and available + booked = total.
C30_CapacityRecordAddsUp ==
  (avail.made /\ avail.res.capacity.present) =>
    /\ 0 <= avail.res.capacity.available
    /\ avail.res.capacity.available <= avail.res.capacity.total
    /\ avail.res.capacity.booked <= avail.res.capacity.total
    /\ avail.res.capacity.available + avail.res.capacity.booked = avail.res.capacity.total

(***************************************************************************)
(* Properties of stored bookings.                                           *)
(***************************************************************************)
\* C25: createBooking for a stored provider on a working weekday that is no
\* blackout date and has a free team member stores exactly one new booking,
\* pending, with no team members and no equipment assigned; when the
\* availability check says not available it stores no booking.
C25_CreateStoresOnePendingBooking ==
  [][ \A providerId \in Providers, date \in Dates, window \in RequestWindows :
        CreateBooking(providerId, date, window, TRUE) =>
          IF Ineligible(providerId, date)
            THEN bookings' = bookings
            ELSE /\ lastRes'.code = "201"
                 /\ DOMAIN bookings' = DOMAIN bookings \cup {NewBookingId}
                 /\ NewBookingId \notin DOMAIN bookings
                 /\ \A b \in DOMAIN bookings : bookings'[b] = bookings[b]
                 /\ bookings'[NewBookingId].provider = providerId
                 /\ bookings'[NewBookingId].date = date
                 /\ bookings'[NewBookingId].status = "pending"
                 /\ bookings'[NewBookingId].teamMembers = {}
                 /\ bookings'[NewBookingId].equipment = {} ]_vars

\* C29: every team member and every equipment unit in a booking's
\* teamAssignment belongs to the roster of the booking's own provider.
C29_AssignedUnitsBelongToProvider ==
  \A b \in DOMAIN bookings :
    /\ bookings[b].teamMembers \subseteq providers[bookings[b].provider].teamMembers
    /\ \A m \in bookings[b].teamMembers : members[m].owner = bookings[b].provider
    /\ bookings[b].equipment \subseteq providers[bookings[b].provider].equipment

(***************************************************************************)
(* The two capacity computations.                                           *)
(***************************************************************************)
\* C26: for the same provider, date and stored bookings the capacity of
\* calculateAvailability (total, available, booked) equals the figures of
\* getTeamAvailability (totalTeamMembers, availableTeamMembers,
\* bookedTeamMembers), and calculateAvailability says available exactly when
\* getTeamAvailability says canAcceptBooking.
C26_CapacityComputationsAgree ==
  [][ (tav'.made /\ tav' # tav /\ tav'.code = "200") =>
        LET res == calculateAvailability(DocArg(tav'.id), tav'.d, TRUE) IN
        res.capacity.present =>
          /\ res.capacity.total = tav'.total
          /\ res.capacity.available = tav'.available
          /\ res.capacity.booked = tav'.booked
          /\ res.available = tav'.canAcceptBooking ]_vars

(***************************************************************************)
(* Properties of the stored working hours.                                  *)
(***************************************************************************)
\* C23: after any sequence of profile and availability updates every
\* weekday entry of a provider's working hours with available = true has
\* its start strictly before its end.
C23_AvailableEntryStartBeforeEnd ==
  \A p \in DOMAIN providers : \A w \in Weekdays :
    LET entry == providers[p].workingHours[w] IN
    (entry.present /\ entry.available) => TimeOfDay(entry.start) < TimeOfDay(entry.end)

(***************************************************************************)
(* Termination of the slot search.                                          *)
(***************************************************************************)
\* C28: findAvailableSlots terminates for every working-hours window, every
\* duration and every set of booked slots: a call that has entered the
\* candidate loop leaves it, and the list it returns is the finite list of
\* the candidates from the working-hours start in steps of one hour.
C28_SlotLoopTerminates ==
  /\ (loop.pc = "test") ~> (loop.pc = "done")
  /\ [](loop.pc = "done" =>
         loop.slots = findAvailableSlots(DocArg(loop.p), loop.d, loop.duration, loop.dbOk))

\* C28 witness: a call has left the loop after passing over a candidate in
\* conflict with a booked slot and after pushing a slot
C28_LoopLeftAfterConflict ==
  /\ loop.pc = "done"
  /\ loop.currentSlot > loop.workStart
  /\ loop.slots # <<>>
  /\ \E c \in 0..23 :
       /\ loop.workStart + c * 60 < loop.currentSlot
       /\ hasConflict(loop.d, loop.workStart + c * 60,
                      loop.workStart + c * 60 + loop.slotDuration * 60, loop.bookedSlots)

====
